---------------------------- MODULE Spec2Model ----------------------------
(***************************************************************************)
(* A model of freqtrade/plot/plotting.py: the four functions that build a  *)
(* plotly figure from an OHLCV table and write it to an HTML file.         *)
(*                                                                         *)
(*   - A figure is the sequence of traces appended to it, each with the    *)
(*     subplot cell it was appended to.  The layout (title, axis titles)   *)
(*     is set once by generate_graph and read by none of the functions.    *)
(*   - The OHLCV table is the set of its column names plus the values of   *)
(*     the columns whose values the code reads (buy, sell).  The other     *)
(*     columns are handed to the traces whole, so a trace names them.      *)
(*   - The logger is the sequence of the records emitted so far.           *)
(*   - A string the code takes apart (pair, ticker_interval, the file      *)
(*     name) is a sequence of one-token strings.                           *)
(***************************************************************************)
EXTENDS Integers, Sequences, FiniteSets, TLC

VARIABLES
    data,         \* the OHLCV DataFrame
    trades,       \* the trades DataFrame, or None
    indicators1,  \* indicator names of the main plot
    indicators2,  \* indicator names of the sub plot
    fig,          \* the figure: the traces appended so far
    log,          \* what the module's logger has emitted
    fs,           \* the file system below the working directory
    call,         \* the last call: its name, arguments, result and the state it started from
    calls         \* calls the caller still makes

vars == <<data, trades, indicators1, indicators2, fig, log, fs, call, calls>>

\* Python's None, and a DataFrame of trades: its rows in order.
None == [kind |-> "None"]
DataFrame(rows) == [kind |-> "DataFrame", rows |-> rows]

\* What a call raised when it raised nothing.
NoException == "none"

----------------------------------------------------------------------------
(* Bounds of the model.                                                    *)

\* Longest indicator list handed to a single generate_row call.
MaxInd == 3
\* Most rows of a trades table handed to a single plot_trades call.
MaxTrades == 2
\* Rows of the OHLCV table handed to generate_graph.
NRows == 2
\* Longest indicator list handed to generate_graph (each of its two lists).
MaxGraphInd == 1
\* Calls the caller makes in a row on one figure.
MaxCalls == 3
\* Longest pair and longest ticker_interval handed to generate_plot_file.
MaxPair == 2
MaxInterval == 3

----------------------------------------------------------------------------
(* Sequences.                                                              *)

\* All sequences over S of length at most n.
SeqsUpTo(S, n) == UNION {[1..k -> S] : k \in 0..n}

----------------------------------------------------------------------------
(* The OHLCV table.                                                        *)

RequiredColumns == {"date", "open", "high", "low", "close", "volume"}
SignalColumns == {"buy", "sell"}
BandColumns == {"bb_lowerband", "bb_upperband"}
IndicatorColumns == {"rsi", "macd"}
\* The names a caller may ask for: "ema" is a column of no table.
IndicatorNames == {"rsi", "macd", "ema"}
\* The names generate_graph is asked for on the main plot and on the sub plot.
PrimaryNames == {"rsi", "ema"}
SecondaryNames == {"macd", "ema"}

NoSignal(n) == [i \in 1..n |-> 0]

\* A table: its columns, its number of rows, and the buy and sell columns'
\* values (all 0 when the column is absent, so a table has one representation).
Table(cols, n, buy, sell) ==
    [columns |-> RequiredColumns \cup cols, nrows |-> n, buy |-> buy, sell |-> sell]

\* Tables that differ in their indicator columns only.
IndicatorTables ==
    {Table(c, 1, NoSignal(1), NoSignal(1)) : c \in SUBSET IndicatorColumns}

\* Tables with every combination of optional columns and signal values.
GraphTables ==
    {t \in {Table(c, NRows, b, s) :
                c \in SUBSET (SignalColumns \cup BandColumns \cup IndicatorColumns),
                b \in [1..NRows -> {0, 1}], s \in [1..NRows -> {0, 1}]} :
        /\ ("buy" \notin t.columns => t.buy = NoSignal(NRows))
        /\ ("sell" \notin t.columns => t.sell = NoSignal(NRows))}

\* `name in data`: a DataFrame contains its column names.
InData(name, d) == name \in d.columns

\* data[data[col] == 1]: the rows (by position) whose flag is 1.
RowsWhere(flags) == SelectSeq([i \in 1..Len(flags) |-> i], LAMBDA i : flags[i] = 1)

\* All rows of a table, by position: what data['date'] or data.date ranges over.
AllRows(d) == [i \in 1..d.nrows |-> i]

----------------------------------------------------------------------------
(* Traces and the figure.                                                  *)

\* A plotly trace object.  x is the rows it draws, y the column it draws,
\* text the per-point labels (<<>> when not given).
Trace(type, name, mode, x, y, text, marker, fill) ==
    [type |-> type, name |-> name, mode |-> mode, x |-> x, y |-> y,
     text |-> text, marker |-> marker, fill |-> fill]

NoMarker == [symbol |-> "", color |-> ""]

\* fig.append_trace(trace, row, col): the trace goes last.
append_trace(f, trace, row, col) ==
    Append(f, [trace |-> trace, row |-> row, col |-> col])

\* logger.info / logger.warning: the record goes last.
emit(l, level, msg, arg) == Append(l, [level |-> level, msg |-> msg, arg |-> arg])

----------------------------------------------------------------------------
(* generate_row.                                                           *)

\* go.Scatter(x=data['date'], y=data[indicator].values, mode='lines', name=indicator)
IndicatorLine(indicator, d) ==
    Trace("scatter", indicator, "lines", AllRows(d), indicator, <<>>, NoMarker, "")

\* The loop with every trace put first in the figure instead of last.
generate_row_front(st, row, indicators, d) ==
    LET step[k \in 0..Len(indicators)] ==
            IF k = 0 THEN st
            ELSE IF InData(indicators[k], d)
                 THEN [step[k - 1] EXCEPT
                          !.fig = <<[trace |-> IndicatorLine(indicators[k], d),
                                     row |-> row, col |-> 1]>> \o @]
                 ELSE [step[k - 1] EXCEPT
                          !.log = emit(@, "info", "Indicator ignored", indicators[k])]
    IN  step[Len(indicators)]

\* The loop with the else branch left out: an absent name is skipped in silence.
generate_row_silent(st, row, indicators, d) ==
    LET step[k \in 0..Len(indicators)] ==
            IF k = 0 THEN st
            ELSE IF InData(indicators[k], d)
                 THEN [step[k - 1] EXCEPT
                          !.fig = append_trace(@, IndicatorLine(indicators[k], d), row, 1)]
                 ELSE step[k - 1]
    IN  step[Len(indicators)]

\* generate_row(fig, row, indicators, data), on the figure and the logger:
\* step[k] is the state after the loop's k-th iteration.
generate_row(st, row, indicators, d) ==
    LET step[k \in 0..Len(indicators)] ==
            IF k = 0 THEN st
            ELSE IF InData(indicators[k], d)
                 THEN [step[k - 1] EXCEPT
                          !.fig = append_trace(@, IndicatorLine(indicators[k], d), row, 1)]
                 ELSE [step[k - 1] EXCEPT
                          !.log = emit(@, "info", "Indicator ignored", indicators[k])]
    IN  step[Len(indicators)]

----------------------------------------------------------------------------
(* plot_trades.                                                            *)

\* A float near q * 10^-4: q * 10^-4 + e * eps for an eps below every
\* distance the rounding looks at (e = 0: the float is exactly q * 10^-4).
Float(q, e) == [q |-> q, e |-> e]

\* Truncation toward minus infinity instead of rounding.
round3_floor(x) == (x.q \div 10) * 10

\* round(x, 3), in units of 10^-4: the multiple of 10 nearest to the float,
\* and of two equally near ones the even multiple.
round3(x) ==
    LET lo == (x.q \div 10) * 10
        rem == x.q - lo
    IN  IF rem < 5 THEN lo
        ELSE IF rem > 5 THEN lo + 10
        ELSE IF x.e > 0 THEN lo + 10
        ELSE IF x.e < 0 THEN lo
        ELSE IF (lo \div 10) % 2 = 0 THEN lo ELSE lo + 10

\* f"{round(row['profitperc'], 3)}%, {row['sell_reason']}, {row['duration']}min"
\* as the sequence of its pieces.
desc_row(r) ==
    <<round3(r.profitperc), "%, ", r.sell_reason, ", ", r.duration, "min">>

\* trades.apply(..., axis=1): one label per row, in row order.
desc(t) == [i \in 1..Len(t.rows) |-> desc_row(t.rows[i])]

TradeMarker(color) == [symbol |-> "square-open", color |-> color]

\* plot_trades without the guard against None: the warning is lost with it.
plot_trades_unguarded(st, t) ==
    IF t # None /\ Len(t.rows) > 0
    THEN LET rows == [i \in 1..Len(t.rows) |-> i]
             trade_buys == Trace("scatter", "trade_buy", "markers", rows, "open_rate",
                                 <<>>, TradeMarker("green"), "")
             trade_sells == Trace("scatter", "trade_sell", "markers", rows, "close_rate",
                                  desc(t), TradeMarker("red"), "")
         IN  [st EXCEPT !.fig = append_trace(append_trace(@, trade_buys, 1, 1),
                                             trade_sells, 1, 1)]
    ELSE IF t = None THEN st
    ELSE [st EXCEPT !.log = emit(@, "warning", "No trades found.", "")]

\* plot_trades(fig, trades), on the figure and the logger.
plot_trades(st, t) ==
    IF t # None /\ Len(t.rows) > 0
    THEN LET rows == [i \in 1..Len(t.rows) |-> i]
             trade_buys == Trace("scatter", "trade_buy", "markers", rows, "open_rate",
                                 <<>>, TradeMarker("green"), "")
             trade_sells == Trace("scatter", "trade_sell", "markers", rows, "close_rate",
                                  desc(t), TradeMarker("red"), "")
         IN  [st EXCEPT !.fig = append_trace(append_trace(@, trade_buys, 1, 1),
                                             trade_sells, 1, 1)]
    ELSE [st EXCEPT !.log = emit(@, "warning", "No trades found.", "")]

----------------------------------------------------------------------------
(* generate_graph.                                                         *)

SignalMarker(symbol, color) == [symbol |-> symbol, color |-> color]

\* tools.make_subplots(rows=3, cols=1, ...) and the layout updates: an empty
\* figure of three rows, titled after the pair.
make_subplots(pair) ==
    [title |-> pair, rows |-> 3, cols |-> 1, row_width |-> <<1, 1, 4>>,
     yaxis1 |-> "Price", yaxis2 |-> "Volume", yaxis3 |-> "Other",
     rangeslider |-> FALSE]

\* The candlestick trace, always appended, to row 1.
add_candles(st, d) ==
    [st EXCEPT !.fig = append_trace(@, Trace("candlestick", "Price", "", AllRows(d),
                                             "ohlc", <<>>, NoMarker, ""), 1, 1)]

\* The buy markers: only when the column exists; the warning only when it
\* exists and no row is flagged.
add_buys(st, d) ==
    IF "buy" \in d.columns
    THEN LET df_buy == RowsWhere(d.buy)
         IN  IF Len(df_buy) > 0
             THEN [st EXCEPT !.fig = append_trace(@,
                      Trace("scatter", "buy", "markers", df_buy, "close", <<>>,
                            SignalMarker("triangle-up-dot", "green"), ""), 1, 1)]
             ELSE [st EXCEPT !.log = emit(@, "warning", "No buy-signals found.", "")]
    ELSE st

\* The sell markers appended whenever the column exists, flagged rows or not.
add_sells_unchecked(st, d) ==
    IF "sell" \in d.columns
    THEN [st EXCEPT !.fig = append_trace(@,
             Trace("scatter", "sell", "markers", RowsWhere(d.sell), "close", <<>>,
                   SignalMarker("triangle-down-dot", "red"), ""), 1, 1)]
    ELSE st

\* The sell markers, likewise.
add_sells(st, d) ==
    IF "sell" \in d.columns
    THEN LET df_sell == RowsWhere(d.sell)
         IN  IF Len(df_sell) > 0
             THEN [st EXCEPT !.fig = append_trace(@,
                      Trace("scatter", "sell", "markers", df_sell, "close", <<>>,
                            SignalMarker("triangle-down-dot", "red"), ""), 1, 1)]
             ELSE [st EXCEPT !.log = emit(@, "warning", "No sell-signals found.", "")]
    ELSE st

BBLower(d) ==
    Trace("scattergl", "BB lower", "", AllRows(d), "bb_lowerband", <<>>, NoMarker, "")

BBUpper(d) ==
    Trace("scattergl", "BB upper", "", AllRows(d), "bb_upperband", <<>>, NoMarker,
          "tonexty")

\* The band traces appended upper first.
add_bollinger_swapped(st, d) ==
    IF InData("bb_lowerband", d) /\ InData("bb_upperband", d)
    THEN [st EXCEPT !.fig = append_trace(append_trace(@, BBUpper(d), 1, 1),
                                         BBLower(d), 1, 1)]
    ELSE st

\* The Bollinger envelope: both traces or none.
add_bollinger(st, d) ==
    IF InData("bb_lowerband", d) /\ InData("bb_upperband", d)
    THEN [st EXCEPT !.fig = append_trace(append_trace(@, BBLower(d), 1, 1),
                                         BBUpper(d), 1, 1)]
    ELSE st

\* The volume bars, always appended, to row 2.
add_volume(st, d) ==
    [st EXCEPT !.fig = append_trace(@, Trace("bar", "Volume", "", AllRows(d),
                                             "volume", <<>>, NoMarker, ""), 2, 1)]

\* generate_graph with the volume bars appended before the trades.
generate_graph_volume_early(l, pair, d, t, ind1, ind2) ==
    LET s0 == [fig |-> <<>>, log |-> l]
        s1 == add_candles(s0, d)
        s2 == add_buys(s1, d)
        s3 == add_sells(s2, d)
        s4 == add_bollinger(s3, d)
        s5 == generate_row(s4, 1, ind1, d)
        s6 == add_volume(s5, d)
        s7 == plot_trades(s6, t)
        s8 == generate_row(s7, 3, ind2, d)
    IN  [fig |-> s8.fig, log |-> s8.log, layout |-> make_subplots(pair)]

\* generate_graph(pair, data, trades, indicators1, indicators2), given the
\* logger: a fresh figure, filled in the order of the code.
generate_graph(l, pair, d, t, ind1, ind2) ==
    LET s0 == [fig |-> <<>>, log |-> l]
        s1 == add_candles(s0, d)
        s2 == add_buys(s1, d)
        s3 == add_sells(s2, d)
        s4 == add_bollinger(s3, d)
        s5 == generate_row(s4, 1, ind1, d)
        s6 == plot_trades(s5, t)
        s7 == add_volume(s6, d)
        s8 == generate_row(s7, 3, ind2, d)
    IN  [fig |-> s8.fig, log |-> s8.log, layout |-> make_subplots(pair)]

----------------------------------------------------------------------------
(* generate_plot_file.                                                     *)

\* replace() that stops after the first occurrence.
str_replace_first(s, old, new) ==
    [i \in 1..Len(s) |->
        IF s[i] = old /\ (\A j \in 1..i - 1 : s[j] # old) THEN new ELSE s[i]]

\* str.replace(old, new) for a one-character old.
str_replace(s, old, new) == [i \in 1..Len(s) |-> IF s[i] = old THEN new ELSE s[i]]

RECURSIVE Split(_)
\* The "/"-separated components of a path string, empty ones included.
Split(s) ==
    IF s = <<>> THEN << <<>> >>
    ELSE LET before == Split(SubSeq(s, 1, Len(s) - 1))
             last == s[Len(s)]
         IN  IF last = "/" THEN Append(before, <<>>)
             ELSE [before EXCEPT ![Len(before)] = Append(@, last)]

\* The components pathlib keeps of a relative path: neither "" nor ".".
PathParts(s) == SelectSeq(Split(s), LAMBDA c : c # <<>> /\ c # <<".">>)

RECURSIVE Join(_)
\* str(path): the components with "/" between them.
Join(parts) ==
    IF parts = <<>> THEN <<>>
    ELSE IF Len(parts) = 1 THEN parts[1]
    ELSE parts[1] \o <<"/">> \o Join(Tail(parts))

PlotsDir == <<"user_data", "/", "plots">>

\* str(Path(base).joinpath(name)) for a name that does not start with "/".
joinpath(base, name) == Join(PathParts(base) \o PathParts(name))

\* 'freqtrade-plot-' + pair.replace("/", "_") + '-' + ticker_interval + '.html'
file_name(pair, ticker_interval) ==
    <<"freqtrade-plot-">> \o str_replace(pair, "/", "_") \o <<"-">>
        \o ticker_interval \o <<".html">>

\* Path("user_data/plots").mkdir(parents=True, exist_ok=True) on a file
\* system where each of user_data and user_data/plots is absent, a
\* directory or a regular file, and `denied` says whether creating a
\* directory is refused.
mkdir(f, denied) ==
    IF f.plots = "dir" THEN [fs |-> f, raised |-> NoException]
    ELSE IF f.plots = "file" THEN [fs |-> f, raised |-> "FileExistsError"]
    ELSE IF f.user_data = "file" THEN [fs |-> f, raised |-> "NotADirectoryError"]
    ELSE IF denied THEN [fs |-> f, raised |-> "PermissionError"]
    ELSE [fs |-> [f EXCEPT !.user_data = "dir", !.plots = "dir"], raised |-> NoException]

\* plot(fig, filename=..., auto_open=False): the file is written when its
\* directory exists and the write is not refused.
plot(f, figure, filename, failing) ==
    IF Len(Split(filename)) # 3 THEN [fs |-> f, raised |-> "FileNotFoundError"]
    ELSE IF failing THEN [fs |-> f, raised |-> "OSError"]
    ELSE [fs |-> [f EXCEPT !.files = @ \cup {filename}], raised |-> NoException]

\* generate_plot_file that goes on to plot() after a failed mkdir().
generate_plot_file_careless(st, figure, pair, ticker_interval, env) ==
    LET l == emit(st.log, "info", "Generate plot file for", pair)
        name == file_name(pair, ticker_interval)
        path == joinpath(PlotsDir, name)
        made == mkdir(st.fs, env.denied)
        mk == [step |-> "mkdir", path |-> PlotsDir, parents |-> TRUE, exist_ok |-> TRUE]
        pl == [step |-> "plot", filename |-> path, auto_open |-> FALSE, fig |-> figure]
        done == plot(made.fs, figure, path, env.failing)
    IN  [fs |-> done.fs, log |-> l, steps |-> <<mk, pl>>, raised |-> done.raised]

\* generate_plot_file(fig, pair, ticker_interval): the log line, the file
\* name, mkdir(), then plot(); an exception ends the call where it is raised.
generate_plot_file(st, figure, pair, ticker_interval, env) ==
    LET l == emit(st.log, "info", "Generate plot file for", pair)
        name == file_name(pair, ticker_interval)
        path == joinpath(PlotsDir, name)
        made == mkdir(st.fs, env.denied)
        mk == [step |-> "mkdir", path |-> PlotsDir, parents |-> TRUE, exist_ok |-> TRUE]
        pl == [step |-> "plot", filename |-> path, auto_open |-> FALSE, fig |-> figure]
    IN  IF made.raised # NoException
        THEN [fs |-> made.fs, log |-> l, steps |-> <<mk>>, raised |-> made.raised]
        ELSE LET done == plot(made.fs, figure, path, env.failing)
             IN  [fs |-> done.fs, log |-> l, steps |-> <<mk, pl>>,
                  raised |-> done.raised]

----------------------------------------------------------------------------
(* The inputs the callers hand in.                                         *)

\* The subplot has three rows.
Rows == 1..3

\* Profit percentages: below, at and above the middle between two
\* thousandths, on both sides of zero, each as a float just below, at or
\* just above the decimal.
Profits == {Float(q, e) : q \in {-15, 4, 6, 15}, e \in {-1, 0, 1}}

TradeRows ==
    {[profitperc |-> p, sell_reason |-> rd[1], duration |-> rd[2]] :
        p \in Profits, rd \in {<<"roi", 5>>, <<"stop_loss", 90>>}}

\* The trades tables of a single plot_trades call: None, empty, or some rows.
TradeTables == {None} \cup {DataFrame(r) : r \in SeqsUpTo(TradeRows, MaxTrades)}

\* The trades tables handed to generate_graph and to a run of calls.
FewTradeTables ==
    {None, DataFrame(<<>>),
     DataFrame(<<[profitperc |-> Float(15, 1), sell_reason |-> "roi", duration |-> 5]>>),
     DataFrame(<<[profitperc |-> Float(-15, 0), sell_reason |-> "stop_loss",
                  duration |-> 90],
                 [profitperc |-> Float(4, 0), sell_reason |-> "roi", duration |-> 5]>>)}

\* The indicator lists handed to a run of calls.
FewIndicatorLists == {<<>>, <<"rsi">>, <<"ema", "macd">>}

\* A figure before a call: empty, or holding a trace already.
InitialFigs == {<<>>, add_candles([fig |-> <<>>, log |-> <<>>], Table({}, 1, <<0>>, <<0>>)).fig}

GraphPair == <<"E", "/", "B">>

PairChars == {"E", "/"}
IntervalChars == {"m", "/", "."}

\* The file systems generate_plot_file may find.
FileSystems ==
    {[user_data |-> u, plots |-> p, files |-> {}] :
        u \in {"absent", "dir", "file"}, p \in {"absent", "dir", "file"}}
    \ {[user_data |-> u, plots |-> p, files |-> {}] :
        u \in {"absent", "file"}, p \in {"dir", "file"}}

EmptyFS == [user_data |-> "absent", plots |-> "absent", files |-> {}]

NoCall == [op |-> "none"]

----------------------------------------------------------------------------
(* The calls.                                                              *)

\* fig = generate_row(fig, row, indicators, data) with one of the two lists.
GenerateRowCall ==
    /\ calls > 0
    /\ \E row \in Rows, inds \in {indicators1, indicators2} :
          LET r == generate_row([fig |-> fig, log |-> log], row, inds, data)
          IN  /\ fig' = r.fig
              /\ log' = r.log
              /\ call' = [op |-> "generate_row", row |-> row, indicators |-> inds,
                          fig0 |-> fig, log0 |-> log, ret |-> r.fig]
    /\ calls' = calls - 1
    /\ UNCHANGED <<data, trades, indicators1, indicators2, fs>>

\* fig = plot_trades(fig, trades).
PlotTradesCall ==
    /\ calls > 0
    /\ LET r == plot_trades([fig |-> fig, log |-> log], trades)
       IN  /\ fig' = r.fig
           /\ log' = r.log
           /\ call' = [op |-> "plot_trades", fig0 |-> fig, log0 |-> log, ret |-> r.fig]
    /\ calls' = calls - 1
    /\ UNCHANGED <<data, trades, indicators1, indicators2, fs>>

\* fig = generate_graph(pair, data, trades, indicators1, indicators2).
GenerateGraphCall ==
    /\ calls > 0
    /\ LET r == generate_graph(log, GraphPair, data, trades, indicators1, indicators2)
       IN  /\ fig' = r.fig
           /\ log' = r.log
           /\ call' = [op |-> "generate_graph", fig0 |-> fig, log0 |-> log,
                       ret |-> r.fig, layout |-> r.layout]
    /\ calls' = calls - 1
    /\ UNCHANGED <<data, trades, indicators1, indicators2, fs>>

\* generate_plot_file(fig, pair, ticker_interval), in an environment that
\* may refuse the directory or the write.
GeneratePlotFileCall ==
    /\ calls > 0
    /\ \E pair \in SeqsUpTo(PairChars, MaxPair),
          ticker_interval \in SeqsUpTo(IntervalChars, MaxInterval),
          denied \in BOOLEAN, failing \in BOOLEAN :
          LET r == generate_plot_file([fs |-> fs, log |-> log], fig, pair,
                                      ticker_interval,
                                      [denied |-> denied, failing |-> failing])
          IN  /\ fs' = r.fs
              /\ log' = r.log
              /\ call' = [op |-> "generate_plot_file", pair |-> pair,
                          ticker_interval |-> ticker_interval,
                          denied |-> denied, failing |-> failing,
                          fs0 |-> fs, log0 |-> log,
                          steps |-> r.steps, raised |-> r.raised]
    /\ calls' = calls - 1
    /\ UNCHANGED <<data, trades, indicators1, indicators2, fig>>

----------------------------------------------------------------------------
(* The specifications.                                                     *)

\* A run of generate_row and plot_trades calls on one figure.
Init ==
    /\ data \in IndicatorTables
    /\ trades \in FewTradeTables
    /\ indicators1 \in FewIndicatorLists
    /\ indicators2 \in FewIndicatorLists
    /\ fig \in InitialFigs
    /\ log = <<>>
    /\ fs = EmptyFS
    /\ call = NoCall
    /\ calls = MaxCalls

Next == GenerateRowCall \/ PlotTradesCall

Spec == Init /\ [][Next]_vars

\* One generate_row call, on every table and indicator list.
InitRow ==
    /\ data \in IndicatorTables
    /\ trades = None
    /\ indicators1 \in SeqsUpTo(IndicatorNames, MaxInd)
    /\ indicators2 = <<>>
    /\ fig \in InitialFigs
    /\ log = <<>>
    /\ fs = EmptyFS
    /\ call = NoCall
    /\ calls = 1

SpecRow == InitRow /\ [][GenerateRowCall]_vars

\* One plot_trades call, on every trades table.
InitTrades ==
    /\ data \in {Table({}, 1, <<0>>, <<0>>)}
    /\ trades \in TradeTables
    /\ indicators1 = <<>>
    /\ indicators2 = <<>>
    /\ fig \in InitialFigs
    /\ log = <<>>
    /\ fs = EmptyFS
    /\ call = NoCall
    /\ calls = 1

SpecTrades == InitTrades /\ [][PlotTradesCall]_vars

\* One generate_graph call, on every table, trades table and pair of lists.
InitGraph ==
    /\ data \in GraphTables
    /\ trades \in FewTradeTables
    /\ indicators1 \in SeqsUpTo(PrimaryNames, MaxGraphInd)
    /\ indicators2 \in SeqsUpTo(SecondaryNames, MaxGraphInd)
    /\ fig = <<>>
    /\ log = <<>>
    /\ fs = EmptyFS
    /\ call = NoCall
    /\ calls = 1

SpecGraph == InitGraph /\ [][GenerateGraphCall]_vars

\* One generate_plot_file call, on every file system, pair and interval.
InitFile ==
    /\ data \in {Table({}, 1, <<0>>, <<0>>)}
    /\ trades = None
    /\ indicators1 = <<>>
    /\ indicators2 = <<>>
    /\ fig \in InitialFigs
    /\ log = <<>>
    /\ fs \in FileSystems
    /\ call = NoCall
    /\ calls = 1

SpecFile == InitFile /\ [][GeneratePlotFileCall]_vars

----------------------------------------------------------------------------
(* What the last call added.                                               *)

\* The traces the last call left after those the figure held before it.
Added == SubSeq(fig, Len(call.fig0) + 1, Len(fig))

\* The records the last call emitted.
Emitted == SubSeq(log, Len(call.log0) + 1, Len(log))

\* The names of a list that are (in = TRUE) or are not (in = FALSE)
\* columns of the table, in the order of the list.
NamesInData(names, in) == SelectSeq(names, LAMBDA n : (n \in data.columns) = in)

Abs(n) == IF n < 0 THEN -n ELSE n

\* r is x rounded to 3 decimals: a whole number of thousandths, and no
\* other thousandth is nearer to the float.
IsRounded3(r, x) ==
    /\ r % 10 = 0
    /\ \/ Abs(r - x.q) < 5
       \/ /\ Abs(r - x.q) = 5
          /\ x.e = 0 \/ (r > x.q) = (x.e > 0)

----------------------------------------------------------------------------
(* Properties of generate_row.                                             *)

\* C1: the traces a generate_row call appends are exactly one line trace
\* per name of the list that is a column of data, named after it, on the
\* given row, in the order of the names in the list.
C1_RowTraces ==
    call.op = "generate_row" =>
        LET present == NamesInData(call.indicators, TRUE)
        IN  /\ Len(fig) = Len(call.fig0) + Len(present)
            /\ \A i \in 1..Len(present) :
                  /\ Added[i].trace.type = "scatter"
                  /\ Added[i].trace.mode = "lines"
                  /\ Added[i].trace.name = present[i]
                  /\ Added[i].trace.y = present[i]
                  /\ Added[i].row = call.row
                  /\ Added[i].col = 1

\* A call on row 3 with two present names around an absent one, on a
\* figure that held a trace already.
C1_Witness ==
    /\ call.op = "generate_row"
    /\ call.indicators = <<"macd", "ema", "rsi">>
    /\ {"rsi", "macd"} \subseteq data.columns
    /\ call.row = 3
    /\ Len(call.fig0) = 1
    /\ Len(fig) = 3

\* C2: for every name of the list that is not a column of data the call
\* appends no trace and emits exactly one informational notice, and it
\* returns; a list of absent names only leaves the number of traces as it
\* was and emits as many notices as it has names.
C2_AbsentNames ==
    call.op = "generate_row" =>
        LET absent == NamesInData(call.indicators, FALSE)
        IN  /\ Len(Emitted) = Len(absent)
            /\ \A i \in 1..Len(absent) :
                  /\ Emitted[i].level = "info"
                  /\ Emitted[i].arg = absent[i]
            /\ \A i \in 1..Len(Added), j \in 1..Len(absent) :
                  Added[i].trace.name # absent[j]
            /\ call.ret = fig
            /\ Len(absent) = Len(call.indicators) =>
                  /\ Len(fig) = Len(call.fig0)
                  /\ Len(Emitted) = Len(call.indicators)

\* A call with three names, none of them a column.
C2_Witness ==
    /\ call.op = "generate_row"
    /\ call.indicators = <<"ema", "macd", "ema">>
    /\ "macd" \notin data.columns
    /\ Len(call.fig0) = 1
    /\ Len(log) = 3

----------------------------------------------------------------------------
(* Properties of plot_trades.                                              *)

\* C3: when trades is None or has no rows, plot_trades appends no trace,
\* emits exactly one warning and returns the figure.
C3_NoTrades ==
    (call.op = "plot_trades" /\ (trades = None \/ Len(trades.rows) = 0)) =>
        /\ fig = call.fig0
        /\ Len(Emitted) = 1
        /\ Emitted[1].level = "warning"
        /\ call.ret = fig

\* A call with trades = None on a figure that held a trace.
C3_Witness ==
    /\ call.op = "plot_trades"
    /\ trades = None
    /\ Len(fig) = 1

\* C4: when trades has at least one row, plot_trades appends exactly two
\* traces to row 1, the open markers and then the close markers, emits no
\* warning, and the close markers carry one label per row, in row order,
\* made of the row's profit percentage rounded to 3 decimals, then its
\* exit reason, then its duration.
C4_TradeMarkers ==
    (call.op = "plot_trades" /\ trades # None /\ Len(trades.rows) > 0) =>
        /\ Len(Added) = 2
        /\ log = call.log0
        /\ Added[1].trace.name = "trade_buy" /\ Added[1].trace.y = "open_rate"
        /\ Added[2].trace.name = "trade_sell" /\ Added[2].trace.y = "close_rate"
        /\ \A i \in 1..2 : /\ Added[i].row = 1
                            /\ Added[i].trace.mode = "markers"
        /\ Len(Added[2].trace.text) = Len(trades.rows)
        /\ \A i \in 1..Len(trades.rows) :
              LET label == Added[2].trace.text[i]
                  r == trades.rows[i]
              IN  /\ Len(label) = 6
                  /\ IsRounded3(label[1], r.profitperc)
                  /\ label[3] = r.sell_reason
                  /\ label[5] = r.duration
                  /\ <<label[2], label[4], label[6]>> = <<"%, ", ", ", "min">>

\* A call with two trades, the first rounded up and the second down.
C4_Witness ==
    /\ call.op = "plot_trades"
    /\ trades # None
    /\ Len(trades.rows) = 2
    /\ trades.rows[1].profitperc = Float(6, 0)
    /\ trades.rows[2].profitperc = Float(-15, -1)
    /\ trades.rows[1].sell_reason # trades.rows[2].sell_reason
    /\ Len(fig) = 3

----------------------------------------------------------------------------
(* Properties of runs of generate_row and plot_trades calls.               *)

\* C10: across every call of generate_row or plot_trades the traces the
\* figure held stay, unchanged and where they were, new traces come after
\* them, and the tables and the indicator lists are left as they were.
C10_AppendOnly ==
    [][/\ Len(fig') >= Len(fig)
       /\ SubSeq(fig', 1, Len(fig)) = fig
       /\ data' = data
       /\ trades' = trades
       /\ indicators1' = indicators1
       /\ indicators2' = indicators2]_vars

\* Three calls in a row, each of which appended: the trade markers between
\* two rows of indicator lines.
C10_Witness ==
    /\ calls = 0
    /\ call.op = "generate_row"
    /\ Len(fig) >= 5
    /\ fig[1].trace.type = "candlestick"
    /\ \E i \in 2..Len(fig) - 2 :
          /\ fig[i - 1].trace.mode = "lines"
          /\ fig[i].trace.name = "trade_buy"
          /\ fig[i + 1].trace.name = "trade_sell"
          /\ fig[i + 2].trace.mode = "lines"

----------------------------------------------------------------------------
(* Properties of generate_graph.                                           *)

\* The flags of a signal column.
Flags(sig) == IF sig = "buy" THEN data.buy ELSE data.sell

\* The signal's column exists and flags at least one row.
HasSignal(sig) == sig \in data.columns /\ \E i \in 1..data.nrows : Flags(sig)[i] = 1

\* The marker traces of a signal in the figure, and the warnings about it.
SignalMarkers(sig) ==
    SelectSeq(fig, LAMBDA e : e.trace.name = sig /\ e.trace.mode = "markers")

SignalWarnings(sig) ==
    SelectSeq(Emitted, LAMBDA m : /\ m.level = "warning"
                                  /\ m.msg = "No " \o sig \o "-signals found.")

Named(name) == {i \in 1..Len(fig) : fig[i].trace.name = name}

\* C6: with both band columns, exactly two band traces on row 1, the lower
\* one and right after it the upper one, which fills to the trace before
\* it; with either column missing, no band trace, and the call returns.
C6_Bollinger ==
    call.op = "generate_graph" =>
        /\ call.ret = fig
        /\ IF BandColumns \subseteq data.columns
           THEN /\ Cardinality(Named("BB lower")) = 1
                /\ Cardinality(Named("BB upper")) = 1
                /\ \A i \in Named("BB lower") :
                      /\ i + 1 \in Named("BB upper")
                      /\ fig[i].row = 1 /\ fig[i + 1].row = 1
                      /\ fig[i].trace.y = "bb_lowerband"
                      /\ fig[i + 1].trace.y = "bb_upperband"
                      /\ fig[i + 1].trace.fill = "tonexty"
                      /\ fig[i].trace.fill = ""
           ELSE Named("BB lower") \cup Named("BB upper") = {}

\* A table with both band columns, and sell markers before the bands.
C6_Witness ==
    /\ call.op = "generate_graph"
    /\ BandColumns \subseteq data.columns
    /\ HasSignal("sell")
    /\ "buy" \notin data.columns
    /\ Named("BB lower") = {3}

\* The group of a trace of the figure, in the order of C7 (0: none of them).
Group(e) ==
    LET t == e.trace
    IN  CASE t.type = "candlestick" -> 1
          [] t.type = "scatter" /\ t.mode = "markers" /\ t.name = "buy" -> 2
          [] t.type = "scatter" /\ t.mode = "markers" /\ t.name = "sell" -> 3
          [] t.type = "scattergl" /\ t.name = "BB lower" -> 4
          [] t.type = "scattergl" /\ t.name = "BB upper" -> 5
          [] t.type = "scatter" /\ t.mode = "lines" /\ e.row = 1 -> 6
          [] t.type = "scatter" /\ t.mode = "markers" /\ t.name = "trade_buy" -> 7
          [] t.type = "scatter" /\ t.mode = "markers" /\ t.name = "trade_sell" -> 8
          [] t.type = "bar" -> 9
          [] t.type = "scatter" /\ t.mode = "lines" /\ e.row = 3 -> 10
          [] OTHER -> 0

\* The groups the inputs call for, in the order of C7.
ExpectedGroups ==
    <<1>>
    \o (IF HasSignal("buy") THEN <<2>> ELSE <<>>)
    \o (IF HasSignal("sell") THEN <<3>> ELSE <<>>)
    \o (IF BandColumns \subseteq data.columns THEN <<4, 5>> ELSE <<>>)
    \o [i \in 1..Len(NamesInData(indicators1, TRUE)) |-> 6]
    \o (IF trades # None /\ Len(trades.rows) > 0 THEN <<7, 8>> ELSE <<>>)
    \o <<9>>
    \o [i \in 1..Len(NamesInData(indicators2, TRUE)) |-> 10]

\* C7: whatever optional inputs are present, the figure generate_graph
\* returns holds, in this order: one candlestick, the buy markers, the sell
\* markers, the lower and upper band, the primary indicator lines, the
\* trade open and close markers, one volume bar, the secondary indicator
\* lines; a group that is skipped leaves the others in order; the volume
\* bar alone is on row 2, the secondary lines alone on row 3, the rest on
\* row 1.
C7_TraceOrder ==
    call.op = "generate_graph" =>
        /\ call.ret = fig
        /\ [i \in 1..Len(fig) |-> Group(fig[i])] = ExpectedGroups
        /\ \A i \in 1..Len(fig) :
              fig[i].row = (CASE Group(fig[i]) = 9 -> 2
                              [] Group(fig[i]) = 10 -> 3
                              [] OTHER -> 1)
        /\ [i \in 1..Len(NamesInData(indicators1, TRUE)) |->
                SelectSeq(fig, LAMBDA e : Group(e) = 6)[i].trace.name]
              = NamesInData(indicators1, TRUE)
        /\ [i \in 1..Len(NamesInData(indicators2, TRUE)) |->
                SelectSeq(fig, LAMBDA e : Group(e) = 10)[i].trace.name]
              = NamesInData(indicators2, TRUE)

\* Every optional input present: all ten groups in one figure.
C7_Witness ==
    /\ call.op = "generate_graph"
    /\ HasSignal("buy") /\ HasSignal("sell")
    /\ BandColumns \subseteq data.columns
    /\ indicators1 = <<"rsi">> /\ indicators2 = <<"macd">>
    /\ IndicatorColumns \subseteq data.columns
    /\ trades # None /\ Len(trades.rows) = 2
    /\ Len(fig) = 10

\* Bands and trades absent, the signal columns without a flagged row: the
\* candlestick, then the volume bar, then a secondary line.
C7_WitnessSkipped ==
    /\ call.op = "generate_graph"
    /\ SignalColumns \subseteq data.columns
    /\ ~HasSignal("buy") /\ ~HasSignal("sell")
    /\ trades = None
    /\ indicators1 = <<"ema">> /\ indicators2 = <<"macd">>
    /\ Len(fig) = 3

----------------------------------------------------------------------------
(* Properties of generate_plot_file.                                       *)

\* p is the pair with every "/" made "_" and every other character kept.
IsPairName(p, pair) ==
    /\ Len(p) = Len(pair)
    /\ \A i \in 1..Len(pair) :
          /\ pair[i] = "/" => p[i] = "_"
          /\ pair[i] # "/" => p[i] = pair[i]

\* The documented path, as a string, for a pair name p.
DocumentedPath(p, ticker_interval) ==
    <<"user_data", "/", "plots", "/", "freqtrade-plot-">> \o p \o <<"-">>
        \o ticker_interval \o <<".html">>

\* The steps of the last call that asked for a render.
PlotSteps == SelectSeq(call.steps, LAMBDA st : st.step = "plot")

\* The interval has a component pathlib drops: an empty one or "." after a "/".
HasDroppedPart(ticker_interval) ==
    \E i \in 1..Len(ticker_interval) :
        /\ ticker_interval[i] = "/"
        /\ \/ i < Len(ticker_interval) /\ ticker_interval[i + 1] = "/"
           \/ /\ i + 1 < Len(ticker_interval)
              /\ ticker_interval[i + 1] = "." /\ ticker_interval[i + 2] = "/"

\* C8: for every pair and interval the render is asked for at the path
\* user_data/plots/freqtrade-plot-<P>-<interval>.html, <P> the pair with
\* every "/" made "_" and nothing else changed, without opening a viewer.
\* The path is the documented one component by component; it is the same
\* string too unless the interval has a component that names no directory
\* (an empty one or "."), which pathlib leaves out of the string.
C8_FilePath ==
    call.op = "generate_plot_file" =>
        \A k \in 1..Len(PlotSteps) :
            \E p \in SeqsUpTo(PairChars \cup {"_"}, Len(call.pair)) :
                /\ IsPairName(p, call.pair)
                /\ Split(PlotSteps[k].filename)
                     = PathParts(DocumentedPath(p, call.ticker_interval))
                /\ ~HasDroppedPart(call.ticker_interval) =>
                     PlotSteps[k].filename = DocumentedPath(p, call.ticker_interval)
                /\ PlotSteps[k].auto_open = FALSE

\* A pair with two separators and an interval with none: the file written.
C8_Witness ==
    /\ call.op = "generate_plot_file"
    /\ call.pair = <<"/", "/">>
    /\ call.ticker_interval = <<"m", ".", "m">>
    /\ call.raised = NoException
    /\ fs.files = {<<"user_data", "/", "plots", "/", "freqtrade-plot-", "_", "_", "-",
                     "m", ".", "m", ".html">>}

\* The file systems in which the directory can be made or is there.
Usable(f) == f.user_data # "file" /\ f.plots # "file"

\* C9: the directory is ensured before the render is asked for, and the
\* call succeeds alike whether the directory or its parent was there or
\* not; when making the directory fails the render is never asked for;
\* what mkdir() or plot() raised reaches the caller as it is, each of the
\* two having been tried at most once.
C9_EnsureThenRender ==
    call.op = "generate_plot_file" =>
        LET made == mkdir(call.fs0, call.denied)
        IN  /\ Len(call.steps) \in {1, 2}
            /\ call.steps[1].step = "mkdir"
            /\ call.steps[1].parents /\ call.steps[1].exist_ok
            /\ Len(call.steps) = 2 <=> made.raised = NoException
            /\ made.raised # NoException =>
                  /\ call.raised = made.raised
                  /\ fs = call.fs0
            /\ Len(call.steps) = 2 =>
                  /\ call.steps[2].step = "plot"
                  /\ fs.user_data = "dir" /\ fs.plots = "dir"
                  /\ call.raised = plot(made.fs, fig, call.steps[2].filename,
                                        call.failing).raised
                  /\ call.raised # NoException => fs.files = {}
            /\ ( /\ Usable(call.fs0)
                 /\ ~call.failing
                 /\ call.fs0.plots = "dir" \/ ~call.denied
                 /\ \A i \in 1..Len(call.ticker_interval) :
                       call.ticker_interval[i] # "/" ) =>
                  /\ call.raised = NoException
                  /\ Len(call.steps) = 2
                  /\ fs = [user_data |-> "dir", plots |-> "dir",
                           files |-> {call.steps[2].filename}]

\* Making the directory was refused: the call ended there.
C9_Witness ==
    /\ call.op = "generate_plot_file"
    /\ call.fs0.user_data = "dir" /\ call.fs0.plots = "absent"
    /\ call.denied
    /\ call.raised = "PermissionError"
    /\ Len(call.steps) = 1

\* Neither directory was there, and the file was written.
C9_WitnessCreated ==
    /\ call.op = "generate_plot_file"
    /\ call.fs0.user_data = "absent"
    /\ call.raised = NoException
    /\ fs.plots = "dir"
    /\ fs.files # {}

=============================================================================
